---- MODULE Spec2Model ----
(***************************************************************************)
(* better-monitor (main.go): the SubnetTracker (attempts, blacklist,       *)
(* lastReset behind one mutex) and the loop of main that feeds it with the *)
(* lines of the ssh journal.                                               *)
(*                                                                         *)
(* Three specifications share the code:                                    *)
(*   Spec         the program as it runs: main's single consumer loop,     *)
(*                one action per line read (the whole loop body);          *)
(*   SpecTracker  the tracker's three methods called from several          *)
(*                goroutines, one action per lock acquisition / critical   *)
(*                section, cleanup's unlocked test being a step of its own;*)
(*   SpecSubnet   getSubnet applied to pairs of addresses.                 *)
(*                                                                         *)
(* Time is counted in half minutes: time.Minute is 2 clock units, so an    *)
(* elapsed time can be below, equal to or above one minute.                *)
(***************************************************************************)
EXTENDS Integers, Sequences, FiniteSets, TLC

\* ---------------------------------------------------------------- bounds
\* The clock stops advancing at MaxTime (half minutes).
MaxTime == 3
\* An address given to getSubnet has at most MaxParts components.
MaxParts == 5

\* ------------------------------------------------------ program constants
\* main.go:120  if t.attempts[subnet] > 5
Threshold == 5
\* main.go:142  time.Minute, in clock units of half a minute
Minute == 2

\* --------------------------------------------------------------- Go maps
\* A Go map is a function with a finite domain; reading an absent key gives
\* the zero value of the element type.
EmptyMap == [k \in {} |-> 0]

Get(m, k, zero) == IF k \in DOMAIN m THEN m[k] ELSE zero

Put(m, k, v) == [x \in (DOMAIN m) \cup {k} |-> IF x = k THEN v ELSE m[x]]

\* ------------------------------------------------------------- addresses
\* A string is modelled by the sequence of its '.'-separated components
\* (strings.Split(ip, ".")); joining with "." is the inverse.
IPs == { <<"10", "0", "0", "1">>, <<"10", "0", "0", "2">>, <<"10", "0", "1", "1">> }

\* extractIP returns "" when no pattern matches.
NoIP == << >>

\* Variant of getSubnet: the test written len(parts) < 4.
getSubnetAtLeastFour(ip) ==
    IF Len(ip) < 4 THEN ip
    ELSE SubSeq(ip, 1, 3) \o <<"0/24">>

\* getSubnet (main.go:64-70)
getSubnet(ip) ==
    IF Len(ip) # 4 THEN ip
    ELSE SubSeq(ip, 1, 3) \o <<"0/24">>

\* The group keys the tracker is called with.
Subnets == { getSubnet(ip) : ip \in IPs }

\* ------------------------------------------------------- outputs of a step
LogRaw       == <<"log", "Raw">>
LogEvent     == <<"log", "Event">>
LogBlock     == <<"log", "Block">>
LogBlocked   == <<"log", "Blocked attempt">>
PostActivity == <<"post", "activity">>
PostSuccess  == <<"post", "success">>
PostBlock    == <<"post", "block">>
CallIsBlocked    == <<"call", "isBlocked">>
CallTrackAttempt == <<"call", "trackAttempt">>
CallCleanup      == <<"call", "cleanup">>

VARIABLES
    attempts,    \* SubnetTracker.attempts : map subnet -> count
    blacklist,   \* SubnetTracker.blacklist: map subnet -> bool
    lastReset,   \* SubnetTracker.lastReset
    now,         \* the wall clock, time.Now()
    mutex,       \* SubnetTracker.Mutex: "free" or the goroutine holding it
    pc,          \* SpecTracker: position of each goroutine
    arg,         \* SpecTracker: the subnet argument of the call in progress
    tnow,        \* SpecTracker: cleanup's local variable now
    last,        \* SpecTracker: the call that completed in the last step
    line,        \* Spec: the line read by the last iteration of main's loop
    trace,       \* Spec: log records, alerts and tracker calls of that iteration
    mid,         \* Spec: the tracker of that iteration when it reached cleanup
    blockPosts,  \* number of block alerts posted, per subnet
    first,       \* Spec: per subnet, the time of the oldest attempt in its counter
    blockSpan,   \* Spec: per blacklisted subnet, the time from the oldest counted
                 \* attempt to the attempt that blacklisted it
    delivery,    \* Spec: what http.Post returned for the alerts of that iteration
    sinceReset,  \* SpecTracker: per subnet, the trackAttempt calls that found it
                 \* not blacklisted since the last reset
    clearedAt,   \* SpecTracker: the clock when attempts was last cleared (-1: never)
    probe        \* SpecSubnet: two addresses and the keys getSubnet gave them

vars == << attempts, blacklist, lastReset, now, mutex, pc, arg, tnow, last,
           line, trace, mid, blockPosts, first, blockSpan, delivery,
           sinceReset, clearedAt, probe >>

\* The receiver *SubnetTracker as a value.
Tracker == [attempts |-> attempts, blacklist |-> blacklist, lastReset |-> lastReset]

\* ------------------------------------------------------ SubnetTracker code
\* Variant of isBlocked: the answer is taken from the counter.
isBlockedByCount(t, subnet) == Get(t.attempts, subnet, 0) > Threshold

\* isBlocked (main.go:103-107), the critical section: t.blacklist[subnet]
isBlocked(t, subnet) == Get(t.blacklist, subnet, FALSE)

\* Variant of overThreshold: the comparison written >= instead of >.
overThresholdAtFive(n) == n >= Threshold

\* main.go:120  t.attempts[subnet] > 5
overThreshold(n) == n > Threshold

\* Variant of trackAttempt: the early return on a blacklisted subnet is missing.
trackAttemptNoGuard(t, subnet) ==
    LET inc == Put(t.attempts, subnet, Get(t.attempts, subnet, 0) + 1)
    IN  IF inc[subnet] > Threshold
        THEN [t |-> [t EXCEPT !.attempts = inc,
                              !.blacklist = Put(t.blacklist, subnet, TRUE)],
              counted |-> TRUE,
              out |-> <<LogBlock, PostBlock>>]
        ELSE [t |-> [t EXCEPT !.attempts = inc],
              counted |-> TRUE,
              out |-> << >>]

\* Variant of trackAttempt: the block alert is posted before the Block record is
\* written.
trackAttemptPostFirst(t, subnet) ==
    IF Get(t.blacklist, subnet, FALSE)
    THEN [t |-> t, counted |-> FALSE, out |-> << >>]
    ELSE LET inc == Put(t.attempts, subnet, Get(t.attempts, subnet, 0) + 1)
         IN  IF inc[subnet] > Threshold
             THEN [t |-> [t EXCEPT !.attempts = inc,
                                   !.blacklist = Put(t.blacklist, subnet, TRUE)],
                   counted |-> TRUE,
                   out |-> <<PostBlock, LogBlock>>]
             ELSE [t |-> [t EXCEPT !.attempts = inc],
                   counted |-> TRUE,
                   out |-> << >>]

\* trackAttempt (main.go:109-138), the critical section. out is what the call
\* writes: the Block log record, then the block alert.
trackAttempt(t, subnet) ==
    IF Get(t.blacklist, subnet, FALSE)
    THEN [t |-> t, counted |-> FALSE, out |-> << >>]
    ELSE LET inc == Put(t.attempts, subnet, Get(t.attempts, subnet, 0) + 1)
         IN  IF overThreshold(inc[subnet])
             THEN [t |-> [t EXCEPT !.attempts = inc,
                                   !.blacklist = Put(t.blacklist, subnet, TRUE)],
                   counted |-> TRUE,
                   out |-> <<LogBlock, PostBlock>>]
             ELSE [t |-> [t EXCEPT !.attempts = inc],
                   counted |-> TRUE,
                   out |-> << >>]

\* Variant of tooEarly: the comparison inverted.
tooEarlyInverted(t, tm) == tm - t.lastReset > Minute

\* Variant of tooEarly: the comparison written <= instead of <.
tooEarlyOrExact(t, tm) == tm - t.lastReset <= Minute

\* cleanup (main.go:141-144): the test made before the lock is taken;
\* TRUE when cleanup returns without resetting.
tooEarly(t, tm) == tm - t.lastReset < Minute

\* Variant of resetWindow: the blacklist is cleared with the counters.
resetWindowClearsAll(t, tm) ==
    [t EXCEPT !.attempts = EmptyMap, !.blacklist = EmptyMap, !.lastReset = tm]

\* Variant of resetWindow: only the counters that reached the threshold are dropped.
resetWindowPartial(t, tm) ==
    [t EXCEPT !.attempts = [k \in {x \in DOMAIN t.attempts : t.attempts[x] < Threshold}
                               |-> t.attempts[k]],
              !.lastReset = tm]

\* cleanup (main.go:146-151): the critical section.
resetWindow(t, tm) == [t EXCEPT !.attempts = EmptyMap, !.lastReset = tm]

\* cleanup (main.go:140-152) run without interruption at time tm.
cleanup(t, tm) == IF tooEarly(t, tm) THEN t ELSE resetWindow(t, tm)

\* ------------------------------------------------------------ main's loop
\* A line is represented by what main reads from it:
\*   ssh       strings.Contains(strings.ToLower(line), "ssh")   (main.go:233)
\*   ip        extractIP(line), NoIP when no pattern matches     (main.go:237)
\*   accepted  strings.Contains(line, "Accepted")                (main.go:249)
Lines == [ssh : BOOLEAN, ip : IPs \cup {NoIP}, accepted : BOOLEAN]

extractIP(l) == l.ip

\* Variant of handleEvent: the isBlocked test is missing.
handleEventNoBlockCheck(t, l, d) ==
    LET subnet == getSubnet(extractIP(l))
        alert == IF l.accepted THEN PostSuccess ELSE PostActivity
        head  == <<CallIsBlocked, LogEvent, alert>>
    IN  IF ~l.accepted
        THEN LET r == trackAttempt(t, subnet)
             IN  [t |-> r.t, counted |-> r.counted,
                  trace |-> head \o <<CallTrackAttempt>> \o r.out]
        ELSE [t |-> t, counted |-> FALSE, trace |-> head]

\* Variant of handleEvent: trackAttempt is called for Accepted lines too.
handleEventTrackAll(t, l, d) ==
    LET subnet == getSubnet(extractIP(l)) IN
    IF ~isBlocked(t, subnet)
    THEN LET alert == IF l.accepted THEN PostSuccess ELSE PostActivity
             head  == <<CallIsBlocked, LogEvent, alert>>
             r     == trackAttempt(t, subnet)
         IN  [t |-> r.t, counted |-> r.counted,
              trace |-> head \o <<CallTrackAttempt>> \o r.out]
    ELSE [t |-> t, counted |-> FALSE, trace |-> <<CallIsBlocked, LogBlocked>>]

\* Variant of handleEvent: the iteration is abandoned when the alert cannot be
\* delivered (if err != nil { continue }).
handleEventStopOnFailure(t, l, d) ==
    LET subnet == getSubnet(extractIP(l)) IN
    IF ~isBlocked(t, subnet)
    THEN LET alert == IF l.accepted THEN PostSuccess ELSE PostActivity
             head  == <<CallIsBlocked, LogEvent, alert>>
         IN  IF ~l.accepted /\ d.event
             THEN LET r == trackAttempt(t, subnet)
                  IN  [t |-> r.t, counted |-> r.counted,
                       trace |-> head \o <<CallTrackAttempt>> \o r.out]
             ELSE [t |-> t, counted |-> FALSE, trace |-> head]
    ELSE [t |-> t, counted |-> FALSE, trace |-> <<CallIsBlocked, LogBlocked>>]

\* main.go:243-278: the branch taken once the address is known. d is what the
\* http.Post calls return (TRUE: delivered); main.go:269 and :136 discard it.
handleEvent(t, l, d) ==
    LET subnet == getSubnet(extractIP(l)) IN
    IF ~isBlocked(t, subnet)
    THEN LET alert == IF l.accepted THEN PostSuccess ELSE PostActivity
             head  == <<CallIsBlocked, LogEvent, alert>>
         IN  IF ~l.accepted
             THEN LET r == trackAttempt(t, subnet)
                  IN  [t |-> r.t, counted |-> r.counted,
                       trace |-> head \o <<CallTrackAttempt>> \o r.out]
             ELSE [t |-> t, counted |-> FALSE, trace |-> head]
    ELSE [t |-> t, counted |-> FALSE, trace |-> <<CallIsBlocked, LogBlocked>>]

\* The outcomes of the (at most two) http.Post calls of an iteration: the
\* event alert of main.go:269 and the block alert of main.go:136.
Deliveries == [event : BOOLEAN, block : BOOLEAN]

AllDelivered == [event |-> TRUE, block |-> TRUE]

\* main.go:226-281: one iteration of the loop, for line l read at time tm.
\* mid is the tracker between trackAttempt and cleanup.
loopBody(t, l, tm, d) ==
    IF ~l.ssh \/ extractIP(l) = NoIP
    THEN [t |-> t, mid |-> t, counted |-> FALSE, trace |-> <<LogRaw>>]
    ELSE LET h == handleEvent(t, l, d)
         IN  [t |-> cleanup(h.t, tm), mid |-> h.t, counted |-> h.counted,
              trace |-> <<LogRaw>> \o h.trace \o <<CallCleanup>>]

\* ----------------------------------------------------------------- helpers
Count(s, e) == Cardinality({i \in DOMAIN s : s[i] = e})

Goroutines == {"g1", "g2"}

NoLine == [ssh |-> FALSE, ip |-> NoIP, accepted |-> FALSE]

NoDelivery == [event |-> "none", block |-> "none"]

NoProbe == [a |-> NoIP, b |-> NoIP, ka |-> NoIP, kb |-> NoIP, done |-> FALSE]

\* ------------------------------------------------------------------- Init
\* NewTracker (main.go:31-37), started at time 0.
InitProgram ==
    /\ attempts = EmptyMap
    /\ blacklist = EmptyMap
    /\ now = 0
    /\ lastReset = now
    /\ mutex = "free"
    /\ pc = [g \in Goroutines |-> "idle"]
    /\ arg = [g \in Goroutines |-> NoIP]
    /\ tnow = [g \in Goroutines |-> 0]
    /\ last = <<"none", NoIP, "none">>
    /\ line = NoLine
    /\ trace = << >>
    /\ mid = [attempts |-> EmptyMap, blacklist |-> EmptyMap, lastReset |-> 0]
    /\ blockPosts = [s \in Subnets |-> 0]
    /\ first = EmptyMap
    /\ blockSpan = EmptyMap
    /\ delivery = NoDelivery
    /\ sinceReset = [s \in Subnets |-> 0]
    /\ clearedAt = -1

Init ==
    /\ InitProgram
    /\ probe = NoProbe

\* What the goroutines of SpecTracker own.
GoroutineVars == << mutex, pc, arg, tnow, last, sinceReset, clearedAt >>

\* What the pipeline owns.
PipelineVars == << line, trace, mid, first, blockSpan, delivery >>

\* The clock advances (between two lines, or between two steps of goroutines).
Tick ==
    /\ now < MaxTime
    /\ now' = now + 1
    /\ UNCHANGED << attempts, blacklist, lastReset, blockPosts, GoroutineVars,
                    PipelineVars, probe >>

\* History kept along an iteration at time tm that called (or not: counted)
\* trackAttempt on subnet s: t is the tracker before, m after trackAttempt,
\* u after cleanup.
FirstAfter(m, u, s, counted, tm) ==
    LET f1 == IF counted /\ Get(m.attempts, s, 0) = 1 THEN Put(first, s, tm) ELSE first
    IN  IF u.lastReset # m.lastReset THEN EmptyMap ELSE f1

SpanAfter(t, m, s, counted, tm) ==
    IF counted /\ isBlocked(m, s) /\ ~isBlocked(t, s)
    THEN Put(blockSpan, s, tm - (IF Get(m.attempts, s, 0) = 1 THEN tm ELSE Get(first, s, tm)))
    ELSE blockSpan

\* What the http.Post calls of an iteration with outputs tr returned, given the
\* outcomes d: "none" for a call that was not made.
DeliveryOf(tr, d) ==
    [event |-> IF Count(tr, PostActivity) + Count(tr, PostSuccess) = 0 THEN "none"
               ELSE IF d.event THEN "ok" ELSE "failed",
     block |-> IF Count(tr, PostBlock) = 0 THEN "none"
               ELSE IF d.block THEN "ok" ELSE "failed"]

\* main.go:226-281: scanner.Scan() returns line l and the loop body runs, the
\* http.Post calls returning d.
ProcessLine(l, d) ==
    \E r \in {loopBody(Tracker, l, now, d)}, s \in {getSubnet(extractIP(l))} :
        /\ attempts' = r.t.attempts
        /\ blacklist' = r.t.blacklist
        /\ lastReset' = r.t.lastReset
        /\ line' = l
        /\ trace' = r.trace
        /\ mid' = r.mid
        /\ delivery' = DeliveryOf(r.trace, d)
        /\ blockPosts' = IF Count(r.trace, PostBlock) > 0
                         THEN [blockPosts EXCEPT ![s] = @ + Count(r.trace, PostBlock)]
                         ELSE blockPosts
        /\ first' = FirstAfter(r.mid, r.t, s, r.counted, now)
        /\ blockSpan' = SpanAfter(Tracker, r.mid, s, r.counted, now)
        /\ UNCHANGED << now, GoroutineVars, probe >>

\* The outcomes to consider for line l: a line dropped at main.go:234 or :239
\* makes no http.Post call.
OutcomesFor(l) == IF l.ssh /\ extractIP(l) # NoIP THEN Deliveries ELSE {AllDelivered}

Next ==
    \/ Tick
    \/ \E l \in Lines : \E d \in OutcomesFor(l) : ProcessLine(l, d)

Spec == Init /\ [][Next]_vars

\* ------------------------------------------- the tracker called concurrently
\* isBlocked (main.go:104): t.Lock()
IsBlockedLock(g, s) ==
    /\ pc[g] = "idle"
    /\ mutex = "free"
    /\ mutex' = g
    /\ pc' = [pc EXCEPT ![g] = "isBlocked"]
    /\ arg' = [arg EXCEPT ![g] = s]
    /\ UNCHANGED << attempts, blacklist, lastReset, now, tnow, last, blockPosts,
                    sinceReset, clearedAt, PipelineVars, probe >>

\* isBlocked (main.go:105-106): the read of the blacklist, then the deferred Unlock.
IsBlockedReturn(g) ==
    /\ pc[g] = "isBlocked"
    /\ last' = <<"isBlocked", arg[g], IF isBlocked(Tracker, arg[g]) THEN "true" ELSE "false">>
    /\ mutex' = "free"
    /\ pc' = [pc EXCEPT ![g] = "idle"]
    /\ arg' = [arg EXCEPT ![g] = NoIP]
    /\ UNCHANGED << attempts, blacklist, lastReset, now, tnow, blockPosts,
                    sinceReset, clearedAt, PipelineVars, probe >>

\* trackAttempt (main.go:110): t.Lock()
TrackAttemptLock(g, s) ==
    /\ pc[g] = "idle"
    /\ mutex = "free"
    /\ mutex' = g
    /\ pc' = [pc EXCEPT ![g] = "trackAttempt"]
    /\ arg' = [arg EXCEPT ![g] = s]
    /\ UNCHANGED << attempts, blacklist, lastReset, now, tnow, last, blockPosts,
                    sinceReset, clearedAt, PipelineVars, probe >>

\* trackAttempt (main.go:111-138): the critical section, then the deferred Unlock.
TrackAttemptReturn(g) ==
    /\ pc[g] = "trackAttempt"
    /\ LET r == trackAttempt(Tracker, arg[g])
       IN  /\ attempts' = r.t.attempts
           /\ blacklist' = r.t.blacklist
           /\ lastReset' = r.t.lastReset
           /\ blockPosts' = IF Count(r.out, PostBlock) > 0
                            THEN [blockPosts EXCEPT ![arg[g]] = @ + Count(r.out, PostBlock)]
                            ELSE blockPosts
           /\ last' = <<"trackAttempt", arg[g],
                        IF ~r.counted THEN "skipped"
                        ELSE IF r.out # << >> THEN "blocked" ELSE "counted">>
    /\ sinceReset' = IF Get(blacklist, arg[g], FALSE) THEN sinceReset
                     ELSE [sinceReset EXCEPT ![arg[g]] = @ + 1]
    /\ mutex' = "free"
    /\ pc' = [pc EXCEPT ![g] = "idle"]
    /\ arg' = [arg EXCEPT ![g] = NoIP]
    /\ UNCHANGED << now, tnow, clearedAt, PipelineVars, probe >>

\* cleanup (main.go:141): now := time.Now()
CleanupNow(g) ==
    /\ pc[g] = "idle"
    /\ tnow' = [tnow EXCEPT ![g] = now]
    /\ pc' = [pc EXCEPT ![g] = "cleanupTest"]
    /\ UNCHANGED << attempts, blacklist, lastReset, now, mutex, arg, last, blockPosts,
                    sinceReset, clearedAt, PipelineVars, probe >>

\* cleanup (main.go:142-144): the test of the elapsed time, which reads
\* t.lastReset with the lock not held. A read that races with the write of
\* main.go:151 yields the value before or the value after it (both time.Time
\* values carry a monotonic reading, which is all Sub uses): the step reads
\* either, according to where it falls.
CleanupTest(g) ==
    /\ pc[g] = "cleanupTest"
    /\ IF tooEarly(Tracker, tnow[g])
       THEN /\ last' = <<"cleanup", NoIP, "early">>
            /\ pc' = [pc EXCEPT ![g] = "idle"]
            /\ tnow' = [tnow EXCEPT ![g] = 0]
       ELSE /\ last' = last
            /\ pc' = [pc EXCEPT ![g] = "cleanupLock"]
            /\ tnow' = tnow
    /\ UNCHANGED << attempts, blacklist, lastReset, now, mutex, arg, blockPosts,
                    sinceReset, clearedAt, PipelineVars, probe >>

\* cleanup (main.go:146): t.Lock()
CleanupLock(g) ==
    /\ pc[g] = "cleanupLock"
    /\ mutex = "free"
    /\ mutex' = g
    /\ pc' = [pc EXCEPT ![g] = "cleanup"]
    /\ UNCHANGED << attempts, blacklist, lastReset, now, arg, tnow, last, blockPosts,
                    sinceReset, clearedAt, PipelineVars, probe >>

\* cleanup (main.go:147-151): the critical section, then the deferred Unlock.
CleanupReturn(g) ==
    /\ pc[g] = "cleanup"
    /\ LET u == resetWindow(Tracker, tnow[g])
       IN  /\ attempts' = u.attempts
           /\ blacklist' = u.blacklist
           /\ lastReset' = u.lastReset
    /\ last' = <<"cleanup", NoIP, "reset">>
    /\ sinceReset' = [s \in Subnets |-> 0]
    /\ clearedAt' = now
    /\ mutex' = "free"
    /\ pc' = [pc EXCEPT ![g] = "idle"]
    /\ tnow' = [tnow EXCEPT ![g] = 0]
    /\ UNCHANGED << now, arg, blockPosts, PipelineVars, probe >>

NextTracker ==
    \/ Tick
    \/ \E g \in Goroutines, s \in Subnets : IsBlockedLock(g, s)
    \/ \E g \in Goroutines : IsBlockedReturn(g)
    \/ \E g \in Goroutines, s \in Subnets : TrackAttemptLock(g, s)
    \/ \E g \in Goroutines : TrackAttemptReturn(g)
    \/ \E g \in Goroutines : CleanupNow(g)
    \/ \E g \in Goroutines : CleanupTest(g)
    \/ \E g \in Goroutines : CleanupLock(g)
    \/ \E g \in Goroutines : CleanupReturn(g)

SpecTracker == Init /\ [][NextTracker]_vars

\* ==================================================================== claims
\* The subnet of the line of the last iteration, and whether that line reached
\* the tracker (it has the ssh marker and an address).
LineSubnet(l) == getSubnet(extractIP(l))

Relevant(l) == l.ssh /\ extractIP(l) # NoIP

Has(s, e) == Count(s, e) > 0

\* Position of the first occurrence of e in s (0 when absent).
Pos(s, e) == IF Has(s, e) THEN CHOOSE i \in DOMAIN s : s[i] = e /\ \A j \in 1..(i-1) : s[j] # e
             ELSE 0

\* C1 (SpecTracker): once a subnet is in the blacklist it stays there, whatever
\* isBlocked, trackAttempt and cleanup steps follow and however they interleave.
BlockingIsPermanent ==
    [][\A s \in Subnets :
          Get(blacklist, s, FALSE) => (s \in DOMAIN blacklist' /\ blacklist'[s])]_vars

\* A blacklisted subnet has just gone through a window reset.
BlockingIsPermanentWitness ==
    /\ last = <<"cleanup", NoIP, "reset">>
    /\ \E s \in Subnets : isBlocked(Tracker, s)

\* C2 (SpecTracker): the block alert of a subnet is posted at most once in an
\* execution, and it is posted by exactly the trackAttempt call whose increment
\* takes the subnet's counter from 5 to 6.
OneBlockAlertPerSubnet ==
    [][\A s \in Subnets :
          /\ blockPosts'[s] # blockPosts[s] =>
                /\ blockPosts[s] = 0
                /\ blockPosts'[s] = 1
                /\ Get(attempts, s, 0) = 5
                /\ Get(attempts', s, 0) = 6
                /\ \E g \in Goroutines :
                      pc[g] = "trackAttempt" /\ arg[g] = s /\ pc'[g] = "idle"
          /\ (Get(attempts, s, 0) = 5 /\ Get(attempts', s, 0) = 6) =>
                blockPosts'[s] = blockPosts[s] + 1]_vars

\* The alert of a subnet was posted and a later trackAttempt of the same subnet
\* has returned.
OneBlockAlertPerSubnetWitness ==
    \E s \in Subnets : blockPosts[s] = 1 /\ last = <<"trackAttempt", s, "skipped">>

\* C3 (Spec): a failed line of a subnet that is not blacklisted and whose counter
\* is n (n failed lines since the counter was 0, no reset in between) raises the
\* counter to n+1 and produces exactly one activity alert; for n < 5 it produces
\* no block alert and leaves the subnet unblocked, for n = 5 (the sixth line) the
\* activity alert is followed by one block alert and the subnet is blacklisted.
SixthFailureBlocks ==
    [][(now' = now /\ Relevant(line') /\ ~line'.accepted
            /\ ~isBlocked(Tracker, LineSubnet(line'))) =>
          LET s == LineSubnet(line')
              n == Get(attempts, s, 0)
          IN  /\ n <= 5
              /\ Get(mid'.attempts, s, 0) = n + 1
              /\ Count(trace', PostActivity) = 1
              /\ Count(trace', PostSuccess) = 0
              /\ n < 5 => /\ Count(trace', PostBlock) = 0
                          /\ ~Get(blacklist', s, FALSE)
              /\ n = 5 => /\ Count(trace', PostBlock) = 1
                          /\ Pos(trace', PostActivity) < Pos(trace', PostBlock)
                          /\ Get(blacklist', s, FALSE)]_vars

\* The sixth failed line of a window has been processed.
SixthFailureBlocksWitness ==
    /\ Relevant(line) /\ ~line.accepted
    /\ Get(attempts, LineSubnet(line), 0) = 6
    /\ isBlocked(Tracker, LineSubnet(line))
    /\ trace = <<LogRaw, CallIsBlocked, LogEvent, PostActivity, CallTrackAttempt,
                 LogBlock, PostBlock, CallCleanup>>

\* C4 (Spec): when a subnet is added to the blacklist, the six attempts that make
\* up its counter lie within one minute.
BlockedWithinOneMinute ==
    \A s \in DOMAIN blockSpan : blockSpan[s] <= Minute

\* C5 (Spec), as claimed: a line of a blacklisted subnet produces the
\* blocked-attempt record only: no alert, no trackAttempt call, and after the
\* iteration the subnet's counter and the blacklist are what they were.
SuppressedLineChangesNothing ==
    [][(now' = now /\ Relevant(line') /\ isBlocked(Tracker, LineSubnet(line'))) =>
          /\ Count(trace', LogBlocked) = 1
          /\ \A e \in {LogEvent, LogBlock, PostActivity, PostSuccess, PostBlock,
                       CallTrackAttempt} : ~Has(trace', e)
          /\ blacklist' = blacklist
          /\ Get(attempts', LineSubnet(line'), 0) = Get(attempts, LineSubnet(line'), 0)]_vars

\* C5 (Spec), amended: a line of a blacklisted subnet produces the blocked-attempt
\* record only: no alert, no trackAttempt call, the blacklist is unchanged and
\* the tracker reaches cleanup unchanged; the counters are then either all kept
\* or all cleared by that cleanup, which happens only when a minute or more has
\* passed since lastReset.
SuppressedLineOnlyResets ==
    [][(now' = now /\ Relevant(line') /\ isBlocked(Tracker, LineSubnet(line'))) =>
          /\ Count(trace', LogBlocked) = 1
          /\ \A e \in {LogEvent, LogBlock, PostActivity, PostSuccess, PostBlock,
                       CallTrackAttempt} : ~Has(trace', e)
          /\ blacklist' = blacklist
          /\ mid' = Tracker
          /\ \/ attempts' = attempts /\ lastReset' = lastReset
             \/ /\ attempts' = EmptyMap /\ lastReset' = now
                /\ now - lastReset >= Minute]_vars

\* A line of a blacklisted subnet whose counter was 6 has been processed and the
\* cleanup that ended the iteration cleared the counter.
SuppressedLineOnlyResetsWitness ==
    /\ Relevant(line)
    /\ isBlocked(Tracker, LineSubnet(line))
    /\ trace = <<LogRaw, CallIsBlocked, LogBlocked, CallCleanup>>
    /\ Get(mid.attempts, LineSubnet(line), 0) = 6
    /\ Get(attempts, LineSubnet(line), 0) = 0

\* C6 (SpecTracker): the critical section of trackAttempt on a blacklisted subnet
\* changes neither attempts, blacklist nor lastReset and posts no block alert.
TrackAttemptBlockedNoOp ==
    [][\A g \in Goroutines :
          (pc[g] = "trackAttempt" /\ pc'[g] = "idle" /\ isBlocked(Tracker, arg[g])) =>
              UNCHANGED << attempts, blacklist, lastReset, blockPosts >>]_vars

\* trackAttempt has returned on a blacklisted subnet whose counter other calls
\* had raised to 6, the other subnet having a counter of its own.
TrackAttemptBlockedNoOpWitness ==
    \E s \in Subnets :
        /\ last = <<"trackAttempt", s, "skipped">>
        /\ isBlocked(Tracker, s)
        /\ Get(attempts, s, 0) = 6
        /\ \E o \in Subnets \ {s} : Get(attempts, o, 0) > 0

\* C7 (Spec): a line with the Accepted marker never raises the counter of its
\* subnet and never changes the blacklist, whatever the counter was (5 included);
\* when the subnet is not blacklisted the line produces one success alert, no
\* activity alert and no trackAttempt call.
AcceptedNeverCounts ==
    [][(now' = now /\ Relevant(line') /\ line'.accepted) =>
          LET s == LineSubnet(line') IN
          /\ Get(mid'.attempts, s, 0) = Get(attempts, s, 0)
          /\ Get(attempts', s, 0) <= Get(attempts, s, 0)
          /\ blacklist' = blacklist
          /\ ~isBlocked(Tracker, s) =>
                /\ Count(trace', PostSuccess) = 1
                /\ ~Has(trace', PostActivity)
                /\ ~Has(trace', PostBlock)
                /\ ~Has(trace', CallTrackAttempt)]_vars

\* An Accepted line was processed while the counter of its subnet was 5.
AcceptedNeverCountsWitness ==
    /\ Relevant(line) /\ line.accepted
    /\ Get(attempts, LineSubnet(line), 0) = 5
    /\ ~isBlocked(Tracker, LineSubnet(line))
    /\ trace = <<LogRaw, CallIsBlocked, LogEvent, PostSuccess, CallCleanup>>

\* C8 (SpecTracker): the critical section of cleanup leaves every counter at zero
\* and the blacklist as it was.
ResetClearsCountersOnly ==
    [][\A g \in Goroutines :
          (pc[g] = "cleanup" /\ pc'[g] = "idle") =>
              /\ \A s \in Subnets : Get(attempts', s, 0) = 0
              /\ blacklist' = blacklist]_vars

\* A reset has just run with a subnet blacklisted.
ResetClearsCountersOnlyWitness ==
    /\ last = <<"cleanup", NoIP, "reset">>
    /\ attempts = EmptyMap
    /\ \E s \in Subnets : isBlocked(Tracker, s)
    /\ lastReset > 0

\* C9 (Spec), as claimed: cleanup at time now resets (clears the counters, sets
\* lastReset to now) iff now - lastReset exceeds one minute; otherwise, exactly
\* one minute included, it changes nothing.
ResetIffMoreThanMinute ==
    [][(now' = now /\ Has(trace', CallCleanup)) =>
          IF now - mid'.lastReset > Minute
          THEN attempts' = EmptyMap /\ lastReset' = now /\ blacklist' = mid'.blacklist
          ELSE Tracker' = mid']_vars

\* C9 (Spec), amended: cleanup at time now resets iff now - lastReset is one
\* minute or more; when less than one minute has elapsed it changes nothing.
ResetIffMinuteOrMore ==
    [][(now' = now /\ Has(trace', CallCleanup)) =>
          IF now - mid'.lastReset >= Minute
          THEN attempts' = EmptyMap /\ lastReset' = now /\ blacklist' = mid'.blacklist
          ELSE Tracker' = mid']_vars

\* cleanup ran exactly one minute after lastReset, with counters to clear, and
\* reset the window.
ResetIffMinuteOrMoreWitness ==
    /\ Has(trace, CallCleanup)
    /\ now - mid.lastReset = Minute
    /\ mid.attempts # EmptyMap
    /\ attempts = EmptyMap
    /\ lastReset = now

\* C10 (Spec): every line read makes the loop call cleanup once.
CleanupOnEveryLine ==
    trace # << >> => Count(trace, CallCleanup) = 1

\* The tracker fields read, and written, by the step a goroutine takes from
\* position p.
FieldsRead(p) ==
    CASE p = "isBlocked"    -> {"blacklist"}
      [] p = "trackAttempt" -> {"blacklist", "attempts"}
      [] p = "cleanupTest"  -> {"lastReset"}
      [] OTHER              -> {}

FieldsWritten(p) ==
    CASE p = "trackAttempt" -> {"attempts", "blacklist"}
      [] p = "cleanup"      -> {"attempts", "lastReset"}
      [] OTHER              -> {}

\* C11 (SpecTracker): every access to attempts, blacklist and lastReset is made
\* with the mutex held, so that no state is reached in which a goroutine is about
\* to access one of them without the mutex while another is about to write it.
SingleLockDiscipline ==
    \A g \in Goroutines : \A h \in Goroutines \ {g} :
        \A f \in FieldsWritten(pc[h]) :
            f \in (FieldsRead(pc[g]) \cup FieldsWritten(pc[g])) => mutex = g

\* C12 (SpecTracker): isBlocked changes no tracker field, and it returns true
\* exactly when a trackAttempt call on the same subnet that raised the counter
\* above 5 (and so posted the block alert) held the lock before it: never true
\* for a subnet that was not blacklisted, never false after the blocking call.
IsBlockedLinearizable ==
    [][\A g \in Goroutines :
          (pc[g] = "isBlocked" /\ pc'[g] = "idle") =>
              /\ UNCHANGED << attempts, blacklist, lastReset >>
              /\ last' = <<"isBlocked", arg[g],
                           IF blockPosts[arg[g]] > 0 THEN "true" ELSE "false">>]_vars

\* isBlocked returned true for a subnet whose counter a reset has cleared since
\* it was blacklisted, the other subnet having a counter and no block.
IsBlockedLinearizableWitness ==
    \E s \in Subnets :
        /\ last = <<"isBlocked", s, "true">>
        /\ blockPosts[s] = 1
        /\ Get(attempts, s, 0) = 0
        /\ \E o \in Subnets \ {s} : blockPosts[o] = 0 /\ Get(attempts, o, 0) > 0

\* C13 (SpecTracker): a trackAttempt call on a subnet that is not blacklisted
\* raises its counter by exactly one and touches no other counter, and the counter
\* of a subnet that is not blacklisted always equals the number of such calls made
\* since the most recent reset.
NoLostOrDoubleCount ==
    [][/\ \A g \in Goroutines :
             (pc[g] = "trackAttempt" /\ pc'[g] = "idle" /\ ~Get(blacklist, arg[g], FALSE)) =>
                 /\ Get(attempts', arg[g], 0) = Get(attempts, arg[g], 0) + 1
                 /\ \A o \in Subnets \ {arg[g]} : Get(attempts', o, 0) = Get(attempts, o, 0)
       /\ \A s \in Subnets :
             ~Get(blacklist', s, FALSE) => Get(attempts', s, 0) = sinceReset'[s]]_vars

\* After a reset, three calls were counted for one subnet, not yet blacklisted,
\* while the other goroutine is inside cleanup.
NoLostOrDoubleCountWitness ==
    \E s \in Subnets :
        /\ last = <<"trackAttempt", s, "counted">>
        /\ clearedAt >= 0
        /\ sinceReset[s] = 3
        /\ \E g \in Goroutines : pc[g] = "cleanupLock"

\* C14 (Spec): in every tracker state and at every instant, a second cleanup call
\* made at the same instant leaves the tracker as the first call left it, and a
\* cleanup call made less than one minute after lastReset changes nothing.
CleanupIdempotent ==
    LET once == cleanup(Tracker, now)
    IN  /\ cleanup(once, now) = once
        /\ now - lastReset < Minute => once = Tracker

\* The loop has just called cleanup, which cleared counters and moved lastReset
\* to the current instant; called again now, it changes nothing.
CleanupIdempotentWitness ==
    /\ Count(trace, CallCleanup) = 1
    /\ mid.attempts # EmptyMap
    /\ mid.lastReset < lastReset
    /\ lastReset = now
    /\ \E s \in Subnets : isBlocked(Tracker, s)
    /\ cleanup(Tracker, now) = Tracker

\* ------------------------------------------------- getSubnet on its own
\* Addresses as getSubnet may receive them: strings.Split never returns an empty
\* slice, so an address has from 1 to MaxParts components. The component "0/24"
\* makes some addresses read like subnet keys.
Components == {"10", "0/24"}

Addresses == UNION { [1..n -> Components] : n \in 1..MaxParts }

InitSubnet ==
    /\ InitProgram
    /\ probe \in [a : Addresses, b : Addresses, ka : {NoIP}, kb : {NoIP}, done : {FALSE}]

\* getSubnet (main.go:64-70) is called on the two addresses.
ApplyGetSubnet ==
    /\ ~probe.done
    /\ probe' = [probe EXCEPT !.ka = getSubnet(probe.a), !.kb = getSubnet(probe.b),
                              !.done = TRUE]
    /\ UNCHANGED << attempts, blacklist, lastReset, now, blockPosts, GoroutineVars,
                    PipelineVars >>

NextSubnet == ApplyGetSubnet

SpecSubnet == InitSubnet /\ [][NextSubnet]_vars

\* C15 (SpecSubnet): the key of an address of exactly four components is its
\* first three components followed by the component "0/24" (the string
\* a.b.c.0/24), so two such addresses have the same key exactly when their first
\* three components are equal; the key of any other address is the address.
SubnetKeyOfFirstThree ==
    probe.done =>
        /\ \A x \in {<<probe.a, probe.ka>>, <<probe.b, probe.kb>>} :
              IF Len(x[1]) = 4
              THEN x[2] = <<x[1][1], x[1][2], x[1][3], "0/24">>
              ELSE x[2] = x[1]
        /\ (Len(probe.a) = 4 /\ Len(probe.b) = 4) =>
              ((probe.ka = probe.kb) <=> (\A i \in 1..3 : probe.a[i] = probe.b[i]))

\* Two different addresses of four components got the same key.
SubnetKeyOfFirstThreeWitness ==
    /\ probe.done
    /\ Len(probe.a) = 4
    /\ Len(probe.b) = 4
    /\ probe.a # probe.b
    /\ probe.ka = probe.kb

\* C16 (Spec): in every iteration the raw line is logged first; an activity or
\* success alert is posted only after the Event record was written, a block alert
\* only after the Block record was written, each record once per alert.
LogBeforeAlert ==
    /\ trace # << >> => trace[1] = LogRaw
    /\ \A i \in DOMAIN trace :
          /\ trace[i] \in {PostActivity, PostSuccess} =>
                \E j \in 1..(i-1) : trace[j] = LogEvent /\ Pos(trace, LogRaw) < j
          /\ trace[i] = PostBlock =>
                \E j \in 1..(i-1) : trace[j] = LogBlock /\ Pos(trace, LogRaw) < j
    /\ Count(trace, PostActivity) + Count(trace, PostSuccess) = Count(trace, LogEvent)
    /\ Count(trace, PostBlock) = Count(trace, LogBlock)

\* An iteration posted both an activity alert and a block alert, the delivery of
\* the block alert succeeding.
LogBeforeAlertWitness ==
    /\ Has(trace, PostActivity)
    /\ Has(trace, PostBlock)
    /\ delivery.block = "ok"
    /\ Pos(trace, LogBlock) = Pos(trace, PostBlock) - 1

\* C17 (Spec): when the delivery of an alert of an iteration fails, each alert is
\* still posted once only (no retry), the iteration runs to its end (cleanup is
\* called, the loop goes on), and the tracker ends as it would have with every
\* delivery successful: a failed attempt is counted and a block it triggers is
\* recorded in the blacklist.
DeliveryFailureSwallowed ==
    [][(now' = now /\ (delivery'.event = "failed" \/ delivery'.block = "failed")) =>
          LET s == LineSubnet(line') IN
          /\ Count(trace', PostActivity) + Count(trace', PostSuccess) = 1
          /\ Count(trace', PostBlock) <= 1
          /\ trace'[Len(trace')] = CallCleanup
          /\ Tracker' = loopBody(Tracker, line', now, AllDelivered).t
          /\ ~line'.accepted =>
                /\ Has(trace', CallTrackAttempt)
                /\ Get(mid'.attempts, s, 0) = Get(attempts, s, 0) + 1
          /\ Has(trace', PostBlock) => Get(blacklist', s, FALSE)]_vars

\* The sixth failed line of a subnet was processed with the delivery of both its
\* activity alert and its block alert failing; the subnet is blacklisted.
DeliveryFailureSwallowedWitness ==
    /\ delivery = [event |-> "failed", block |-> "failed"]
    /\ ~line.accepted
    /\ Get(mid.attempts, LineSubnet(line), 0) = 6
    /\ isBlocked(Tracker, LineSubnet(line))

\* C18 (SpecTracker): the counter of every subnet is between 0 and 6; a counter
\* above 5 belongs to a blacklisted subnet; a subnet that is not blacklisted has a
\* counter of at most 5 and a blacklisted one a counter of exactly 6 or 0.
CounterBlacklistInvariant ==
    \A s \in Subnets :
        LET c == Get(attempts, s, 0)
            b == Get(blacklist, s, FALSE)
        IN  /\ c \in 0..6
            /\ c > 5 => b
            /\ ~b => c <= 5
            /\ b => c \in {0, 6}

\* One subnet was blacklisted before the last reset and reads 0, the other was
\* blacklisted after it and reads 6.
CounterBlacklistInvariantWitness ==
    \E s \in Subnets : \E o \in Subnets \ {s} :
        /\ Get(blacklist, s, FALSE) /\ Get(attempts, s, 0) = 0
        /\ Get(blacklist, o, FALSE) /\ Get(attempts, o, 0) = 6

\* C19 (SpecTracker): with a clock that never goes back, lastReset never
\* decreases, cleanup calls running concurrently included.
LastResetNeverDecreases ==
    [][lastReset' >= lastReset]_vars

\* C20 (SpecTracker): two successive clearings of the counters are at least one
\* minute of clock time apart.
ResetsOneWindowApart ==
    [][\A g \in Goroutines :
          (pc[g] = "cleanup" /\ pc'[g] = "idle" /\ clearedAt >= 0) =>
              now - clearedAt >= Minute]_vars

====
